---- MODULE Spec2Model ----
(***************************************************************************)
(* A model of the tikz-extractor engine (src/tikz_extractor/extractor.py)  *)
(* and of the extraction loop of its command line (cli.py).                *)
(*                                                                         *)
(* Spec     one run of extract_from_directory ("lib") or of                *)
(*          _perform_extraction ("cli") over a source tree, one action per *)
(*          loop iteration; the file system may fail any mkdir or write.   *)
(* SpecText extract_tikz_from_text and _format_tikz_content applied to     *)
(*          every text up to MaxLen tokens.                                *)
(* SpecCalls one call of sanitize_name, find_files, build_ai_context, or   *)
(*          of _simulate_block_metadata followed by write_extracted_blocks *)
(*          on the same arguments, on a POSIX or a Windows platform.       *)
(* SpecRerun extract_from_directory called twice on the same arguments,    *)
(*          out_dir outside or inside the source directory.                *)
(*                                                                         *)
(* Text is a sequence of tokens: the two marker literals are one token     *)
(* each (both start with a backslash and hold no other one, so no marker   *)
(* overlaps another and the tokenisation of a text is unique), every other *)
(* character is a token of its own.                                        *)
(***************************************************************************)
EXTENDS Integers, Sequences, FiniteSets, TLC

\* ---------------------------------------------------------------- bounds
\* Longest text (in tokens) the text specification draws.
MaxLen == 6
\* Number of successive normalisations of one text.
MaxPasses == 2
\* Largest number of entries under the source directory.
MaxFiles == 3
\* Longest path argument of a sanitize_name call, in tokens.
MaxPathLen == 4
\* Longest record list of a build_ai_context call.
MaxRecords == 3

VARIABLES
    \* --- one pure-function run (SpecText)
    input,      \* the input string
    tpc,        \* "idle" | "input" | "extracted" | "normalized"
    found,      \* result of extract_tikz_from_text(input)
    normalized, \* _format_tikz_content of each block of found
    current,    \* the string _format_tikz_content is applied to
    prev,       \* current before the last application
    passes      \* number of applications so far

tvars == <<input, tpc, found, normalized, current, prev, passes>>

VARIABLES
    \* --- one run over a directory (Spec)
    tree,             \* the files under src, in traversal order
    exts,             \* the extension list passed in
    mode,             \* "lib": extract_from_directory, "cli": _perform_extraction
    dry_run,          \* the --dry-run flag (cli)
    pc,               \* "idle" | "start" | "loop" | "done"
    files_to_process, \* result of find_files (paths)
    pos,              \* 1-based position of the loop in files_to_process
    all_metadata,     \* the records collected so far
    processed_files,  \* cli counter
    skipped_files,    \* cli counter
    out_dir_exists,   \* whether the output directory exists
    out_files,        \* the output directory: file name -> content
    ai_file,          \* the AI context file: [exists, content]
    raised,           \* an exception left the running function
    \* --- history of the run (what happened, for stating the claims)
    written,          \* the completed block-file writes, in order: [path, source]
    write_failed,     \* some mkdir or block-file write of the run failed
    last_call         \* the last write_extracted_blocks call: its io and result

dvars == <<tree, exts, mode, dry_run, pc, files_to_process, pos, all_metadata,
           processed_files, skipped_files, out_dir_exists, out_files, ai_file,
           raised, written, write_failed, last_call>>

VARIABLES
    \* --- one call of one function of the engine (SpecCalls)
    flavour,    \* the path flavour of the platform: "posix" | "nt"
    call,       \* the function called and its arguments
    answer      \* what the call gave

cvars == <<flavour, call, answer>>

VARIABLES
    \* --- the setting of a directory run, and a second run after it (SpecRerun)
    out_in_root, \* whether out_dir lies under the source directory
    fs_faulty,   \* whether a mkdir or a write of the run may fail
    run,         \* 1 in the first run, 2 in the run after it
    first_run    \* what the first run returned and left in out_dir

rvars == <<out_in_root, fs_faulty, run, first_run>>

vars == <<tvars, dvars, cvars, rvars>>

\* ------------------------------------------------------------ characters
BEGIN == "\\begin{tikzpicture}"
END == "\\end{tikzpicture}"
NL == "\n"
SP == " "
XCHAR == "x"

Alphabet == {BEGIN, END, NL, SP, XCHAR}

\* str.strip() removes these; a line of split("\n") holds no NL.
Whitespace == {SP, NL}

Texts == UNION {[1..n -> Alphabet] : n \in 0..MaxLen}

\* ------------------------------------------------------- string helpers
RECURSIVE lstrip(_)
lstrip(s) ==
    IF s # <<>> /\ Head(s) \in Whitespace THEN lstrip(Tail(s)) ELSE s

RECURSIVE rstrip(_)
rstrip(s) ==
    IF s # <<>> /\ s[Len(s)] \in Whitespace
    THEN rstrip(SubSeq(s, 1, Len(s) - 1))
    ELSE s

\* A variant of strip that trims the right end only.
strip_right_only(s) == rstrip(s)

strip(s) == rstrip(lstrip(s))

startswith(s, c) == s # <<>> /\ Head(s) = c

endswith(s, c) == s # <<>> /\ s[Len(s)] = c

\* content.split("\n"): always at least one line.
RECURSIVE split_from(_, _, _)
split_from(s, i, cur) ==
    IF i > Len(s) THEN <<cur>>
    ELSE IF s[i] = NL THEN <<cur>> \o split_from(s, i + 1, <<>>)
    ELSE split_from(s, i + 1, Append(cur, s[i]))

split(s) == split_from(s, 1, <<>>)

\* "\n".join(lines)
RECURSIVE join(_)
join(lines) ==
    IF lines = <<>> THEN <<>>
    ELSE IF Len(lines) = 1 THEN lines[1]
    ELSE lines[1] \o <<NL>> \o join(Tail(lines))

\* ------------------------------------------------------- block extractor
\* One attempt of the pattern at position i: the begin-marker literal, then
\* the lazy .*? grown one character at a time until the end-marker literal
\* follows.  The position of that end-marker, or 0 when the attempt fails.
\* A variant that takes the last end-marker (a greedy .*).
RECURSIVE greedy_end(_, _)
greedy_end(text, k) ==
    IF k > Len(text) THEN 0
    ELSE LET later == greedy_end(text, k + 1)
         IN  IF later # 0 THEN later
             ELSE IF text[k] = END THEN k ELSE 0

\* A variant that gives the attempt up at a second begin-marker.
RECURSIVE tempered_end(_, _)
tempered_end(text, k) ==
    IF k > Len(text) THEN 0
    ELSE IF text[k] = END THEN k
    ELSE IF text[k] = BEGIN THEN 0
    ELSE tempered_end(text, k + 1)

RECURSIVE lazy_end(_, _)
lazy_end(text, k) ==
    IF k > Len(text) THEN 0
    ELSE IF text[k] = END THEN k
    ELSE lazy_end(text, k + 1)

TIKZ_RE(text, i) ==
    IF i <= Len(text) /\ text[i] = BEGIN THEN lazy_end(text, i + 1) ELSE 0

\* A variant whose next search starts one character after the match began
\* (overlapping matches).
RECURSIVE findall_overlapping(_, _)
findall_overlapping(text, i) ==
    IF i > Len(text) THEN <<>>
    ELSE LET e == TIKZ_RE(text, i)
         IN  IF e = 0 THEN findall_overlapping(text, i + 1)
             ELSE <<SubSeq(text, i, e)>> \o findall_overlapping(text, i + 1)

\* findall: leftmost attempt first, the next search starts after the match.
RECURSIVE findall(_, _)
findall(text, i) ==
    IF i > Len(text) THEN <<>>
    ELSE LET e == TIKZ_RE(text, i)
         IN  IF e = 0 THEN findall(text, i + 1)
             ELSE <<SubSeq(text, i, e)>> \o findall(text, e + 1)

extract_tikz_from_text(text) == findall(text, 1)

\* ------------------------------------------------------ block normalizer
\* A variant of the loop body that drops a line equal to the one before it.
format_line_dedup(acc, line) ==
    LET clean_line == strip(line)
        n == Len(acc.formatted_lines)
    IN  IF clean_line = <<>> THEN acc
        ELSE IF n > 0 /\ strip(acc.formatted_lines[n]) = clean_line THEN acc
        ELSE IF startswith(clean_line, BEGIN) \/ startswith(clean_line, END)
             THEN [formatted_lines |-> Append(acc.formatted_lines, clean_line),
                   indent_level |-> acc.indent_level]
        ELSE [formatted_lines |-> Append(acc.formatted_lines, <<SP, SP>> \o clean_line),
              indent_level |-> acc.indent_level]

\* A variant of the loop body that indents every line, marker lines too.
format_line_all_indented(acc, line) ==
    LET clean_line == strip(line)
    IN  IF clean_line = <<>> THEN acc
        ELSE [formatted_lines |-> Append(acc.formatted_lines, <<SP, SP>> \o clean_line),
              indent_level |-> acc.indent_level]

\* A variant of the loop body that indents an end-marker line like content.
format_line_end_indented(acc, line) ==
    LET clean_line == strip(line)
    IN  IF clean_line = <<>> THEN acc
        ELSE IF startswith(clean_line, BEGIN)
             THEN [formatted_lines |-> Append(acc.formatted_lines, clean_line),
                   indent_level |-> 1]
        ELSE [formatted_lines |-> Append(acc.formatted_lines, <<SP, SP>> \o clean_line),
              indent_level |-> acc.indent_level]

\* The loop body of _format_tikz_content for one line; acc carries
\* formatted_lines and indent_level.
format_line(acc, line) ==
    LET clean_line == strip(line)
        lvl == IF startswith(clean_line, END)
               THEN (IF acc.indent_level - 1 > 0 THEN acc.indent_level - 1 ELSE 0)
               ELSE acc.indent_level
    IN  IF clean_line = <<>> THEN acc
        ELSE IF startswith(clean_line, BEGIN)
             THEN [formatted_lines |-> Append(acc.formatted_lines, clean_line),
                   indent_level |-> 1]
        ELSE IF startswith(clean_line, END)
             THEN [formatted_lines |-> Append(acc.formatted_lines, clean_line),
                   indent_level |-> lvl]
        ELSE [formatted_lines |-> Append(acc.formatted_lines, <<SP, SP>> \o clean_line),
              indent_level |-> lvl]

RECURSIVE format_lines(_, _)
format_lines(acc, lines) ==
    IF lines = <<>> THEN acc
    ELSE format_lines(format_line(acc, Head(lines)), Tail(lines))

\* A variant that joins the lines and appends no final newline.
format_without_final_newline(content) ==
    join(format_lines([formatted_lines |-> <<>>, indent_level |-> 0],
                      split(content)).formatted_lines)

_format_tikz_content(content) ==
    LET acc == format_lines([formatted_lines |-> <<>>, indent_level |-> 0],
                            split(content))
        result == join(acc.formatted_lines)
    IN  IF ~endswith(result, NL) THEN result \o <<NL>> ELSE result

\* ------------------------------------------------------------- paths
\* A path is a sequence of tokens: "/" separates components, "." is a token
\* of its own so that an extension is a suffix of the token sequence.
SEP == "/"
DOT == "."

OUT_DIR == <<"out">>

\* Path.name: the tokens after the last separator.
BACKSLASH == "\\"

\* The separators pathlib parses a path by: a PosixPath knows "/" only, a
\* WindowsPath "/" and "\".
separators(fl) == IF fl = "nt" THEN {SEP, BACKSLASH} ELSE {SEP}

\* The components of a path between separators, empty ones included.
RECURSIVE components(_, _, _, _)
components(path, seps, i, cur) ==
    IF i > Len(path) THEN <<cur>>
    ELSE IF path[i] \in seps THEN <<cur>> \o components(path, seps, i + 1, <<>>)
    ELSE components(path, seps, i + 1, Append(cur, path[i]))

\* PurePath.name of a path without a drive: pathlib drops empty and "."
\* components; the name is the last one left, or empty.
path_name(path, seps) ==
    LET parts == SelectSeq(components(path, seps, 1, <<>>),
                           LAMBDA c : c # <<>> /\ c # <<DOT>>)
    IN  IF parts = <<>> THEN <<>> ELSE parts[Len(parts)]

\* Path.name on the platform the program runs on.
basename(path) == path_name(path, separators(flavour))

sanitize_name(path) == basename(path)

\* out_dir / filename
joinpath(dir, name) == dir \o <<SEP>> \o name

\* -------------------------------------------------------- file discovery
\* ext if it starts with a dot, "." + ext otherwise.
\* A variant that takes the extension as written.
ext_as_written(ext) == ext

normalize_ext(ext) == IF startswith(ext, DOT) THEN ext ELSE <<DOT>> \o ext

normalized_exts(es) == [i \in 1..Len(es) |-> normalize_ext(es[i])]

\* fnmatch of the pattern "*" + ext against the last path component.
matches(path, ext) ==
    LET name == basename(path)
    IN  /\ Len(name) >= Len(ext)
        /\ SubSeq(name, Len(name) - Len(ext) + 1, Len(name)) = ext

\* src.rglob("*" + ext): the matching paths in traversal order.
RECURSIVE rglob(_, _)
rglob(entries, ext) ==
    IF entries = <<>> THEN <<>>
    ELSE (IF matches(Head(entries).path, ext) THEN <<Head(entries).path>> ELSE <<>>)
         \o rglob(Tail(entries), ext)

RECURSIVE extend_all(_, _)
extend_all(entries, nexts) ==
    IF nexts = <<>> THEN <<>>
    ELSE rglob(entries, Head(nexts)) \o extend_all(entries, Tail(nexts))

find_files(entries, es) == extend_all(entries, normalized_exts(es))

\* ------------------------------------------------------------ block writer
DEFAULT_START_COUNTER == 1

\* f"tikz_{global_index}.tex"
filename(global_index) == <<"tikz_", ToString(global_index), DOT, "tex">>

\* A variant of the write that stores the block as matched.
block_write_raw(block, out_dir, global_index) ==
    [path |-> joinpath(out_dir, filename(global_index)), content |-> block]

\* The file one iteration writes: open(out_path, "w"); f.write(formatted_block)
block_write(block, out_dir, global_index) ==
    [path |-> joinpath(out_dir, filename(global_index)),
     content |-> _format_tikz_content(block)]

\* A variant of the record that names the source by its sanitized base name.
block_metadata_sanitized_source(block, src_path, out_dir, global_index) ==
    [source |-> sanitize_name(src_path),
     out_path |-> joinpath(out_dir, filename(global_index)),
     index |-> global_index,
     content |-> _format_tikz_content(block)]

block_metadata(block, src_path, out_dir, global_index) ==
    [source |-> src_path,
     out_path |-> joinpath(out_dir, filename(global_index)),
     index |-> global_index,
     content |-> _format_tikz_content(block)]

\* What the file system does during one call: whether mkdir succeeds, which
\* write fails (0: none, i: that of the i-th block) and whether the failed
\* write left the file truncated (open succeeded, write did not).
IoChoices(n) ==
    [mkdir_ok : BOOLEAN, fail_at : 0..n, truncated : BOOLEAN]

\* The writes a call completes before it returns or raises, a failed write
\* that truncated its file included.
writes_of(blks, out_dir, start_counter, io) ==
    LET done == IF io.fail_at = 0 THEN Len(blks) ELSE io.fail_at - 1
        ok == [i \in 1..done |->
                 block_write(blks[i], out_dir, start_counter + i - 1)]
    IN  IF io.fail_at # 0 /\ io.truncated
        THEN Append(ok, [path |-> joinpath(out_dir, filename(start_counter + io.fail_at - 1)),
                         content |-> <<>>])
        ELSE ok

\* A variant that catches the write error and returns the records so far.
write_extracted_blocks_partial(blks, src_path, out_dir, start_counter, io) ==
    IF ~io.mkdir_ok
    THEN [raised |-> FALSE, returned |-> TRUE, metadata |-> <<>>,
          mkdir |-> FALSE, writes |-> <<>>, completed |-> 0]
    ELSE LET done == IF io.fail_at = 0 THEN Len(blks) ELSE io.fail_at - 1
         IN  [raised |-> FALSE, returned |-> TRUE,
              metadata |-> [i \in 1..done |->
                  block_metadata(blks[i], src_path, out_dir, start_counter + i - 1)],
              mkdir |-> TRUE,
              writes |-> writes_of(blks, out_dir, start_counter, io),
              completed |-> done]

\* The result of one call under io: raised or returned, the records
\* returned, whether the directory was made, the files written in order and
\* how many of them completely.
write_extracted_blocks(blks, src_path, out_dir, start_counter, io) ==
    IF ~io.mkdir_ok
    THEN [raised |-> TRUE, returned |-> FALSE, metadata |-> <<>>,
          mkdir |-> FALSE, writes |-> <<>>, completed |-> 0]
    ELSE IF io.fail_at # 0
    THEN [raised |-> TRUE, returned |-> FALSE, metadata |-> <<>>,
          mkdir |-> TRUE,
          writes |-> writes_of(blks, out_dir, start_counter, io),
          completed |-> io.fail_at - 1]
    ELSE [raised |-> FALSE, returned |-> TRUE,
          metadata |-> [i \in 1..Len(blks) |->
              block_metadata(blks[i], src_path, out_dir, start_counter + i - 1)],
          mkdir |-> TRUE,
          writes |-> writes_of(blks, out_dir, start_counter, io),
          completed |-> Len(blks)]

\* cli.py: the records of a dry run.
_simulate_block_metadata(blks, src_path, out_dir) ==
    [i \in 1..Len(blks) |->
        [source |-> src_path,
         out_path |-> joinpath(out_dir,
             sanitize_name(src_path) \o <<"__tikz", ToString(i), DOT, "tex">>),
         index |-> i,
         content |-> blks[i]]]

\* ------------------------------------------------------ context aggregator
DASH == "-"

\* A variant that heads each unit with the whole out_path.
RECURSIVE context_units_full_path(_, _)
context_units_full_path(metadata, i) ==
    IF i > Len(metadata) THEN <<>>
    ELSE <<"### ">> \o metadata[i].out_path \o <<NL>>
         \o metadata[i].content \o <<NL>>
         \o (IF i < Len(metadata) THEN <<NL, DASH, DASH, DASH, NL, NL>> ELSE <<>>)
         \o context_units_full_path(metadata, i + 1)

\* A variant that writes the separator after every unit, the last included.
RECURSIVE context_units_trailing_separator(_, _)
context_units_trailing_separator(metadata, i) ==
    IF i > Len(metadata) THEN <<>>
    ELSE <<"### ">> \o basename(metadata[i].out_path) \o <<NL>>
         \o metadata[i].content \o <<NL>>
         \o <<NL, DASH, DASH, DASH, NL, NL>>
         \o context_units_trailing_separator(metadata, i + 1)

\* The writes of the loop of build_ai_context from record i on.
RECURSIVE context_units(_, _)
context_units(metadata, i) ==
    IF i > Len(metadata) THEN <<>>
    ELSE <<"### ">> \o basename(metadata[i].out_path) \o <<NL>>
         \o metadata[i].content \o <<NL>>
         \o (IF i < Len(metadata) THEN <<NL, DASH, DASH, DASH, NL, NL>> ELSE <<>>)
         \o context_units(metadata, i + 1)

\* What a build_ai_context call that completes leaves in ai_file.
build_ai_context(metadata) == context_units(metadata, 1)

\* open(ai_file, "w"): creates or truncates the file in an existing parent
\* directory; no directory is made.
open_for_write(parent_exists, open_ok) == parent_exists /\ open_ok

\* One build_ai_context call on a file system: whether it raised and the
\* file it leaves.  io says whether open and the writes succeed.
build_ai_context_call(metadata, prior, parent_exists, io) ==
    IF ~open_for_write(parent_exists, io.open_ok)
    THEN [raised |-> TRUE, file |-> prior]
    ELSE IF ~io.write_ok
    THEN [raised |-> TRUE, file |-> [exists |-> TRUE, content |-> <<>>]]
    ELSE [raised |-> FALSE,
          file |-> [exists |-> TRUE, content |-> build_ai_context(metadata)]]

\* ------------------------------------------------ the text specification
\* Any text up to MaxLen tokens; extract_tikz_from_text is applied to it
\* once, _format_tikz_content up to MaxPasses times in a row.
DirIdle ==
    /\ tree = <<>>
    /\ exts = <<>>
    /\ mode = "none"
    /\ dry_run = FALSE
    /\ pc = "idle"
    /\ files_to_process = <<>>
    /\ pos = 1
    /\ all_metadata = <<>>
    /\ processed_files = 0
    /\ skipped_files = 0
    /\ out_dir_exists = FALSE
    /\ out_files = <<>>
    /\ ai_file = [exists |-> FALSE, content |-> <<>>]
    /\ raised = FALSE
    /\ written = <<>>
    /\ write_failed = FALSE
    /\ last_call = [called |-> FALSE]

RerunIdle ==
    /\ out_in_root = FALSE
    /\ fs_faulty = TRUE
    /\ run = 1
    /\ first_run = [done |-> FALSE]

TextIdle ==
    /\ input = <<>> /\ tpc = "idle" /\ found = <<>> /\ normalized = <<>>
    /\ current = <<>> /\ prev = <<>> /\ passes = 0

CallIdle ==
    /\ flavour = "posix"
    /\ call = [fn |-> "none"]
    /\ answer = [done |-> FALSE]

TextInit ==
    /\ DirIdle
    /\ CallIdle
    /\ RerunIdle
    /\ input \in Texts
    /\ tpc = "input"
    /\ found = <<>>
    /\ normalized = <<>>
    /\ current = input
    /\ prev = input
    /\ passes = 0

\* extract_tikz_from_text(input)
Extract ==
    /\ tpc = "input"
    /\ passes = 0
    /\ found' = extract_tikz_from_text(input)
    /\ tpc' = "extracted"
    /\ UNCHANGED <<input, normalized, current, prev, passes>>
    /\ UNCHANGED <<dvars, cvars, rvars>>

\* _format_tikz_content of every block found, as the writer applies it.
Normalize ==
    /\ tpc = "extracted"
    /\ normalized' = [n \in 1..Len(found) |-> _format_tikz_content(found[n])]
    /\ tpc' = "normalized"
    /\ UNCHANGED <<input, found, current, prev, passes>>
    /\ UNCHANGED <<dvars, cvars, rvars>>

\* _format_tikz_content(current), on the input and then on its own result.
Format ==
    /\ tpc = "input"
    /\ passes < MaxPasses
    /\ prev' = current
    /\ current' = _format_tikz_content(current)
    /\ passes' = passes + 1
    /\ UNCHANGED <<input, tpc, found, normalized>>
    /\ UNCHANGED <<dvars, cvars, rvars>>

TextNext == Extract \/ Normalize \/ Format

SpecText == TextInit /\ [][TextNext]_vars

\* ------------------------------------------- the directory specification
\* File contents the source tree is built from.
NoBlock == <<XCHAR, NL>>
OneBlock == <<SP, BEGIN, NL, SP, XCHAR, NL, END, NL>>
\* A closed block, then an unterminated one merged with a closed one.
TwoBlocks == <<BEGIN, XCHAR, END, NL, BEGIN, NL, BEGIN, END>>

\* The kinds of entry: readable .tex files, a .tex file that cannot be
\* read, a readable .md file.
Shapes ==
    {[ext |-> "tex", readable |-> TRUE, text |-> t] : t \in {NoBlock, OneBlock, TwoBlocks}}
    \cup {[ext |-> "tex", readable |-> FALSE, text |-> <<>>],
          [ext |-> "md", readable |-> TRUE, text |-> OneBlock]}

\* The i-th entry of the traversal; every second one lies in a subdirectory.
entry(i, shape) ==
    [path |-> (IF i % 2 = 0 THEN <<"sub", SEP>> ELSE <<>>)
              \o <<"f" \o ToString(i), DOT, shape.ext>>,
     is_dir |-> FALSE,
     readable |-> shape.readable,
     text |-> shape.text]

Trees ==
    UNION {{[i \in 1..n |-> entry(i, shapes[i])] : shapes \in [1..n -> Shapes]}
           : n \in 0..MaxFiles}

ExtLists == {<<<<DOT, "tex">>>>,
             <<<<"tex">>, <<DOT, "md">>>>,
             <<<<"md">>, <<DOT, "md">>>>}

\* What a failing open/read of a source file raises.
ReadErrors == {"UnicodeDecodeError", "PermissionError"}

\* What a failing mkdir or write raises.
WriteError == "OSError"

\* The output directory before the run: absent, or left by an earlier run.
StaleFiles == (filename(1) :> <<"old">>)

Lookup(path) == CHOOSE e \in {tree[i] : i \in 1..Len(tree)} : e.path = path

\* The files of out_dir as directory entries, in some order of traversal.
RECURSIVE out_entries(_)
out_entries(names) ==
    IF names = {} THEN <<>>
    ELSE LET name == CHOOSE x \in names : TRUE
         IN  <<[path |-> joinpath(OUT_DIR, name), is_dir |-> FALSE,
                readable |-> TRUE, text |-> out_files[name]]>>
             \o out_entries(names \ {name})

\* What src.rglob walks: the source files, and the files of out_dir when it
\* lies under src; out_dir is met before or after the source files.
visible_entries(out_first) ==
    LET outs == IF out_in_root /\ out_dir_exists
                THEN out_entries(DOMAIN out_files) ELSE <<>>
    IN  IF out_first THEN outs \o tree ELSE tree \o outs

IsOutPath(path) ==
    /\ Len(path) > Len(OUT_DIR) + 1
    /\ SubSeq(path, 1, Len(OUT_DIR) + 1) = OUT_DIR \o <<SEP>>

\* open(file_path).read() of a candidate: a source file, or a file of
\* out_dir as it is at the time of the read.
source_entry(path) ==
    IF out_in_root /\ IsOutPath(path)
    THEN [path |-> path, is_dir |-> FALSE, readable |-> TRUE,
          text |-> out_files[basename(path)]]
    ELSE Lookup(path)

Init ==
    /\ TextIdle
    /\ CallIdle
    /\ RerunIdle
    /\ tree \in Trees
    /\ exts \in ExtLists
    /\ mode \in {"lib", "cli"}
    /\ dry_run \in (IF mode = "cli" THEN BOOLEAN ELSE {FALSE})
    /\ pc = "start"
    /\ files_to_process = <<>>
    /\ pos = 1
    /\ all_metadata = <<>>
    /\ processed_files = 0
    /\ skipped_files = 0
    /\ out_dir_exists \in BOOLEAN
    /\ out_files = (IF out_dir_exists THEN StaleFiles ELSE <<>>)
    /\ ai_file = (IF out_dir_exists THEN [exists |-> TRUE, content |-> <<"old">>]
                                    ELSE [exists |-> FALSE, content |-> <<>>])
    /\ raised = FALSE
    /\ written = <<>>
    /\ write_failed = FALSE
    /\ last_call = [called |-> FALSE]

\* open(path, "w") and write, for each write in order.
RECURSIVE apply_writes(_, _)
apply_writes(files, writes) ==
    IF writes = <<>> THEN files
    ELSE apply_writes((basename(Head(writes).path) :> Head(writes).content) @@ files,
                      Tail(writes))

\* The io choices that differ in effect: mkdir of an existing directory
\* succeeds, nothing is written after a failed mkdir, only a failed write
\* truncates.
Io(n) ==
    {io \in IoChoices(n) :
        /\ (~fs_faulty => (io.mkdir_ok /\ io.fail_at = 0))
        /\ (out_dir_exists => io.mkdir_ok)
        /\ (~io.mkdir_ok => io.fail_at = 0)
        /\ (io.fail_at = 0 => ~io.truncated)}

\* The history of one write_extracted_blocks call.
call_record(blks, src_path, start_counter, io, r) ==
    [called |-> TRUE, blocks |-> blks, src_path |-> src_path,
     start_counter |-> start_counter, io |-> io,
     raised |-> r.raised, returned |-> r.returned, metadata |-> r.metadata]

log_writes(r, src_path) ==
    [i \in 1..r.completed |-> [path |-> r.writes[i].path, source |-> src_path]]

\* A variant that numbers the blocks of a file from the record count.
start_counter_zero_based(metadata) == Len(metadata)

\* A variant that numbers the blocks of every file from 1.
start_counter_per_file(metadata) == DEFAULT_START_COUNTER

\* start_counter = len(all_metadata) + 1
next_start_counter(metadata) == Len(metadata) + 1

\* A variant that ends the loop at the first file that cannot be read.
break_loop(p, n) == n + 1

\* continue: on to the next file.
continue_loop(p, n) == p + 1

\* except (UnicodeDecodeError, IOError, OSError)
caught_by_orchestrator(kind) ==
    kind \in {"UnicodeDecodeError", "IOError", "OSError", "PermissionError"}

\* extract_from_directory, up to the loop: find_files.
LibStart ==
    /\ pc = "start" /\ mode = "lib"
    /\ \E out_first \in BOOLEAN :
          files_to_process' = find_files(visible_entries(out_first), exts)
    /\ all_metadata' = <<>>
    /\ pos' = 1
    /\ pc' = "loop"
    /\ UNCHANGED <<tree, exts, mode, dry_run, processed_files, skipped_files,
                   out_dir_exists, out_files, ai_file, raised, written,
                   write_failed, last_call>>
    /\ UNCHANGED <<tvars, cvars, rvars>>

\* One iteration of the loop of extract_from_directory over a file that
\* cannot be read: the error is caught and the loop goes on.
LibSkipUnreadable ==
    /\ pc = "loop" /\ mode = "lib"
    /\ pos <= Len(files_to_process)
    /\ ~source_entry(files_to_process[pos]).readable
    /\ \E kind \in ReadErrors :
          IF caught_by_orchestrator(kind)
          THEN /\ pos' = continue_loop(pos, Len(files_to_process))
               /\ UNCHANGED <<pc, raised>>
          ELSE /\ pc' = "done" /\ raised' = TRUE /\ UNCHANGED pos
    /\ UNCHANGED <<tree, exts, mode, dry_run, files_to_process, all_metadata,
                   processed_files, skipped_files, out_dir_exists, out_files,
                   ai_file, written, write_failed, last_call>>
    /\ UNCHANGED <<tvars, cvars, rvars>>

\* A variant that calls the writer for every file read.
calls_writer_always(tikz_blocks) == TRUE

\* if tikz_blocks: (the writer is called only for a file with a block)
calls_writer(tikz_blocks) == tikz_blocks # <<>>

\* One iteration over a readable file: extract, and if there are blocks,
\* write them and extend the records; an error of the writer is caught by
\* the same except clause.
LibProcessFile ==
    /\ pc = "loop" /\ mode = "lib"
    /\ pos <= Len(files_to_process)
    /\ source_entry(files_to_process[pos]).readable
    /\ LET file_path == files_to_process[pos]
           tikz_blocks == extract_tikz_from_text(source_entry(file_path).text)
       IN  IF ~calls_writer(tikz_blocks)
           THEN /\ pos' = pos + 1
                /\ UNCHANGED <<all_metadata, out_dir_exists, out_files, written,
                               write_failed, last_call, pc, raised>>
           ELSE \E io \in Io(Len(tikz_blocks)) :
                  LET r == write_extracted_blocks(tikz_blocks, file_path, OUT_DIR,
                               next_start_counter(all_metadata), io)
                  IN  /\ out_dir_exists' = (out_dir_exists \/ r.mkdir)
                      /\ out_files' = apply_writes(out_files, r.writes)
                      /\ written' = written \o log_writes(r, file_path)
                      /\ write_failed' = (write_failed \/ r.raised)
                      /\ last_call' = call_record(tikz_blocks, file_path,
                                        next_start_counter(all_metadata), io, r)
                      /\ IF ~r.raised
                         THEN /\ all_metadata' = all_metadata \o r.metadata
                              /\ pos' = pos + 1
                              /\ UNCHANGED <<pc, raised>>
                         ELSE IF caught_by_orchestrator(WriteError)
                         THEN /\ pos' = continue_loop(pos, Len(files_to_process))
                              /\ UNCHANGED <<all_metadata, pc, raised>>
                         ELSE /\ pc' = "done" /\ raised' = TRUE
                              /\ UNCHANGED <<all_metadata, pos>>
    /\ UNCHANGED <<tree, exts, mode, dry_run, files_to_process,
                   processed_files, skipped_files, ai_file>>
    /\ UNCHANGED <<tvars, cvars, rvars>>

\* return all_metadata
LibReturn ==
    /\ pc = "loop" /\ mode = "lib"
    /\ pos > Len(files_to_process)
    /\ pc' = "done"
    /\ UNCHANGED <<tree, exts, mode, dry_run, files_to_process, pos,
                   all_metadata, processed_files, skipped_files, out_dir_exists,
                   out_files, ai_file, raised, written, write_failed, last_call>>
    /\ UNCHANGED <<tvars, cvars, rvars>>

\* _perform_extraction, up to the loop: find_files, and the early return
\* when nothing matches.
CliStart ==
    /\ pc = "start" /\ mode = "cli"
    /\ files_to_process' = find_files(tree, exts)
    /\ all_metadata' = <<>>
    /\ processed_files' = 0
    /\ skipped_files' = 0
    /\ pos' = 1
    /\ pc' = (IF files_to_process' = <<>> THEN "done" ELSE "loop")
    /\ UNCHANGED <<tree, exts, mode, dry_run, out_dir_exists, out_files,
                   ai_file, raised, written, write_failed, last_call>>
    /\ UNCHANGED <<tvars, cvars, rvars>>

\* One iteration of the loop of _perform_extraction over a file that
\* cannot be read: every except clause counts the file as skipped.
CliSkipUnreadable ==
    /\ pc = "loop" /\ mode = "cli"
    /\ pos <= Len(files_to_process)
    /\ ~Lookup(files_to_process[pos]).readable
    /\ skipped_files' = skipped_files + 1
    /\ pos' = pos + 1
    /\ UNCHANGED <<tree, exts, mode, dry_run, pc, files_to_process,
                   all_metadata, processed_files, out_dir_exists, out_files,
                   ai_file, raised, written, write_failed, last_call>>
    /\ UNCHANGED <<tvars, cvars, rvars>>

\* One iteration over a readable file: the records are simulated in a dry
\* run and written otherwise, by write_extracted_blocks called without a
\* start counter.
CliProcessFile ==
    /\ pc = "loop" /\ mode = "cli"
    /\ pos <= Len(files_to_process)
    /\ Lookup(files_to_process[pos]).readable
    /\ LET file_path == files_to_process[pos]
           tikz_blocks == extract_tikz_from_text(Lookup(file_path).text)
       IN  IF tikz_blocks = <<>>
           THEN UNCHANGED <<all_metadata, processed_files, skipped_files,
                            out_dir_exists, out_files, written, write_failed,
                            last_call>>
           ELSE IF dry_run
           THEN /\ all_metadata' = all_metadata
                      \o _simulate_block_metadata(tikz_blocks, file_path, OUT_DIR)
                /\ processed_files' = processed_files + 1
                /\ UNCHANGED <<skipped_files, out_dir_exists, out_files, written,
                               write_failed, last_call>>
           ELSE \E io \in Io(Len(tikz_blocks)) :
                  LET r == write_extracted_blocks(tikz_blocks, file_path, OUT_DIR,
                               DEFAULT_START_COUNTER, io)
                  IN  /\ out_dir_exists' = (out_dir_exists \/ r.mkdir)
                      /\ out_files' = apply_writes(out_files, r.writes)
                      /\ written' = written \o log_writes(r, file_path)
                      /\ write_failed' = (write_failed \/ r.raised)
                      /\ last_call' = call_record(tikz_blocks, file_path,
                                        DEFAULT_START_COUNTER, io, r)
                      /\ IF ~r.raised
                         THEN /\ all_metadata' = all_metadata \o r.metadata
                              /\ processed_files' = processed_files + 1
                              /\ UNCHANGED skipped_files
                         ELSE /\ skipped_files' = skipped_files + 1
                              /\ UNCHANGED <<all_metadata, processed_files>>
    /\ pos' = pos + 1
    /\ UNCHANGED <<tree, exts, mode, dry_run, pc, files_to_process, ai_file,
                   raised>>
    /\ UNCHANGED <<tvars, cvars, rvars>>

\* A variant that writes the AI context file in a dry run too.
creates_ai_file_always(metadata, dry) == metadata # <<>>

\* if all_metadata: if dry_run: (echo only) else: build_ai_context(...)
creates_ai_file(metadata, dry) == metadata # <<>> /\ ~dry

\* After the loop: the summary, and the AI context file when there are
\* records and the run is not dry; a failure to write it is a warning.
CliFinish ==
    /\ pc = "loop" /\ mode = "cli"
    /\ pos > Len(files_to_process)
    /\ IF creates_ai_file(all_metadata, dry_run)
       THEN \E outcome \in {"written", "open failed", "write failed"} :
              ai_file' = CASE outcome = "written" ->
                                [exists |-> TRUE, content |-> build_ai_context(all_metadata)]
                           [] outcome = "open failed" -> ai_file
                           [] outcome = "write failed" ->
                                [exists |-> TRUE, content |-> <<>>]
       ELSE UNCHANGED ai_file
    /\ pc' = "done"
    /\ UNCHANGED <<tree, exts, mode, dry_run, files_to_process, pos,
                   all_metadata, processed_files, skipped_files, out_dir_exists,
                   out_files, raised, written, write_failed, last_call>>
    /\ UNCHANGED <<tvars, cvars, rvars>>

Next ==
    \/ LibStart
    \/ LibSkipUnreadable
    \/ LibProcessFile
    \/ LibReturn
    \/ CliStart
    \/ CliSkipUnreadable
    \/ CliProcessFile
    \/ CliFinish

Spec == Init /\ [][Next]_vars

\* ------------------------------------------------ the call specification
\* One call of one function of the engine on arguments drawn from small
\* sets, on either platform.
PathChars == {"a", DOT, SEP, BACKSLASH}

\* Paths without a drive or a UNC prefix.
PathArgs ==
    {p \in UNION {[1..n -> PathChars] : n \in 0..MaxPathLen} :
        ~(Len(p) >= 2 /\ p[1] \in {SEP, BACKSLASH} /\ p[2] \in {SEP, BACKSLASH})}

CallInit ==
    /\ TextIdle
    /\ DirIdle
    /\ RerunIdle
    /\ flavour \in {"posix", "nt"}
    /\ call = [fn |-> "none"]
    /\ answer = [done |-> FALSE]

\* sanitize_name(Path(path))
CallSanitizeName ==
    /\ call.fn = "none"
    /\ \E path \in PathArgs :
          /\ call' = [fn |-> "sanitize_name", path |-> path]
          /\ answer' = [done |-> TRUE, value |-> sanitize_name(path)]
    /\ UNCHANGED <<flavour, tvars, dvars, rvars>>

\* Records as build_ai_context may be given: of a written block, of a block
\* with a line of three dashes, of a file named with three dashes, and a
\* record of _simulate_block_metadata (content as matched).
RecordArgs ==
    { [source |-> <<"f1", DOT, "tex">>,
       out_path |-> joinpath(OUT_DIR, filename(1)), index |-> 1,
       content |-> <<BEGIN, NL, SP, SP, XCHAR, NL, END, NL>>],
      [source |-> <<"f1", DOT, "tex">>,
       out_path |-> joinpath(OUT_DIR, filename(2)), index |-> 2,
       content |-> <<BEGIN, NL, SP, SP, DASH, DASH, DASH, NL, END, NL>>],
      [source |-> <<"sub", SEP, "f2", DOT, "tex">>,
       out_path |-> joinpath(OUT_DIR, <<"a", DASH, DASH, DASH, "b", DOT, "tex">>),
       index |-> 3,
       content |-> <<BEGIN, END, NL>>],
      [source |-> <<"sub", SEP, "f2", DOT, "tex">>,
       out_path |-> joinpath(OUT_DIR, <<"f2", DOT, "tex", "__tikz", "1", DOT, "tex">>),
       index |-> 1,
       content |-> <<BEGIN, XCHAR, END>>] }

MetadataArgs == UNION {[1..n -> RecordArgs] : n \in 0..MaxRecords}

\* The destination before the call: no parent directory, no file, or a file
\* of an earlier run.
DestStates ==
    { [parent_exists |-> FALSE, file |-> [exists |-> FALSE, content |-> <<>>]],
      [parent_exists |-> TRUE, file |-> [exists |-> FALSE, content |-> <<>>]],
      [parent_exists |-> TRUE, file |-> [exists |-> TRUE, content |-> <<"old">>]] }

\* The io outcomes that differ in effect: nothing is written after a
\* failed open.
AiIo ==
    { [open_ok |-> TRUE, write_ok |-> TRUE],
      [open_ok |-> TRUE, write_ok |-> FALSE],
      [open_ok |-> FALSE, write_ok |-> FALSE] }

\* build_ai_context(metadata, ai_file)
CallBuildAiContext ==
    /\ call.fn = "none"
    /\ \E metadata \in MetadataArgs, dest \in DestStates, io \in AiIo :
          LET r == build_ai_context_call(metadata, dest.file, dest.parent_exists, io)
          IN  /\ call' = [fn |-> "build_ai_context", metadata |-> metadata,
                          dest |-> dest, io |-> io]
              /\ answer' = [done |-> TRUE, raised |-> r.raised, file |-> r.file]
    /\ UNCHANGED <<flavour, tvars, dvars, rvars>>

\* A file whose name ends with the letters of an extension, without a dot.
DotlessEntry(ext) ==
    [path |-> <<"notes", ext>>, is_dir |-> FALSE, readable |-> TRUE,
     text |-> NoBlock]

\* A directory whose name ends with the extension; open() of it raises
\* IsADirectoryError.
DirEntry(ext) ==
    [path |-> <<"figs", DOT, ext>>, is_dir |-> TRUE, readable |-> FALSE,
     text |-> <<>>]

\* find_files(src, [ext]) with the extension written without its dot
CallFindFiles ==
    /\ call.fn = "none"
    /\ \E tr \in Trees, ext \in {"tex", "md"}, dotless \in BOOLEAN,
          with_dir \in BOOLEAN :
          LET entries == tr \o (IF dotless THEN <<DotlessEntry(ext)>> ELSE <<>>)
                            \o (IF with_dir THEN <<DirEntry(ext)>> ELSE <<>>)
          IN  /\ call' = [fn |-> "find_files", src |-> entries, ext |-> ext]
              /\ answer' = [done |-> FALSE,
                            bare |-> find_files(entries, <<<<ext>>>>)]
    /\ UNCHANGED <<flavour, tvars, dvars, rvars>>

\* find_files(src, ["." + ext]) on the same directory
CallFindFilesDotted ==
    /\ call.fn = "find_files"
    /\ ~answer.done
    /\ answer' = [done |-> TRUE, bare |-> answer.bare,
                  dotted |-> find_files(call.src, <<<<DOT, call.ext>>>>)]
    /\ UNCHANGED <<call, flavour, tvars, dvars, rvars>>

\* The blocks of one source file and its path.
BlockArgs == {extract_tikz_from_text(t) : t \in {OneBlock, TwoBlocks}}

SourceArgs == {<<"f1", DOT, "tex">>, <<"sub", SEP, "f2", DOT, "tex">>}

\* _simulate_block_metadata(blocks, src_path, out_dir): the dry run's branch
CallSimulateBlockMetadata ==
    /\ call.fn = "none"
    /\ \E blks \in BlockArgs, src_path \in SourceArgs :
          /\ call' = [fn |-> "metadata", blocks |-> blks, src_path |-> src_path]
          /\ answer' = [done |-> FALSE,
                        simulated |-> _simulate_block_metadata(blks, src_path, OUT_DIR)]
    /\ UNCHANGED <<flavour, tvars, dvars, rvars>>

\* write_extracted_blocks(blocks, src_path, out_dir) on the same arguments:
\* the real run's branch
CallWriteExtractedBlocks ==
    /\ call.fn = "metadata"
    /\ ~answer.done
    /\ \E io \in Io(Len(call.blocks)) :
          LET r == write_extracted_blocks(call.blocks, call.src_path, OUT_DIR,
                                          DEFAULT_START_COUNTER, io)
          IN  answer' = [done |-> TRUE, simulated |-> answer.simulated,
                         returned |-> r.returned, real |-> r.metadata]
    /\ UNCHANGED <<call, flavour, tvars, dvars, rvars>>

CallNext ==
    \/ CallSanitizeName
    \/ CallSimulateBlockMetadata
    \/ CallWriteExtractedBlocks
    \/ CallBuildAiContext
    \/ CallFindFiles
    \/ CallFindFilesDotted

SpecCalls == CallInit /\ [][CallNext]_vars

\* ----------------------------------------------- the rerun specification
\* extract_from_directory run twice in succession on the same source
\* directory, out_dir and extensions, out_dir outside or inside the source
\* directory and absent before the first run; no mkdir or write fails.
RerunInit ==
    /\ TextIdle
    /\ CallIdle
    /\ tree \in Trees
    /\ exts \in ExtLists
    /\ mode = "lib"
    /\ dry_run = FALSE
    /\ pc = "start"
    /\ files_to_process = <<>>
    /\ pos = 1
    /\ all_metadata = <<>>
    /\ processed_files = 0
    /\ skipped_files = 0
    /\ out_dir_exists = FALSE
    /\ out_files = <<>>
    /\ ai_file = [exists |-> FALSE, content |-> <<>>]
    /\ raised = FALSE
    /\ written = <<>>
    /\ write_failed = FALSE
    /\ last_call = [called |-> FALSE]
    /\ out_in_root \in BOOLEAN
    /\ fs_faulty = FALSE
    /\ run = 1
    /\ first_run = [done |-> FALSE]

\* The first call has returned; the caller calls extract_from_directory
\* again with the same arguments.
Rerun ==
    /\ mode = "lib" /\ pc = "done" /\ ~raised
    /\ run = 1
    /\ first_run' = [done |-> TRUE, metadata |-> all_metadata,
                     out_files |-> out_files]
    /\ run' = 2
    /\ pc' = "start"
    /\ files_to_process' = <<>>
    /\ pos' = 1
    /\ all_metadata' = <<>>
    /\ written' = <<>>
    /\ write_failed' = FALSE
    /\ last_call' = [called |-> FALSE]
    /\ UNCHANGED <<tree, exts, mode, dry_run, processed_files, skipped_files,
                   out_dir_exists, out_files, ai_file, raised>>
    /\ UNCHANGED <<out_in_root, fs_faulty>>
    /\ UNCHANGED <<tvars, cvars>>

RerunNext ==
    \/ LibStart
    \/ LibSkipUnreadable
    \/ LibProcessFile
    \/ LibReturn
    \/ Rerun

SpecRerun == RerunInit /\ [][RerunNext]_vars

\* ----------------------------------------------- claims on a directory run
LibDone == mode = "lib" /\ pc = "done"

Sources(metadata) == {metadata[k].source : k \in 1..Len(metadata)}

C2_UniqueOutPaths ==
    mode = "lib" =>
        \A i, j \in 1..Len(all_metadata) :
            i # j => all_metadata[i].out_path # all_metadata[j].out_path

C2_Witness ==
    /\ LibDone
    /\ Len(all_metadata) = 4
    /\ Cardinality(Sources(all_metadata)) = 2

NoDuplicates(files) ==
    \A i, j \in 1..Len(files) : i # j => files[i] # files[j]

\* C3: in a command-line run that is not dry (every candidate found once,
\* no write failing) the k-th record of the run names tikz_k.tex, and no
\* output path is written twice in the run.
C3_CliRunGlobalNames ==
    (mode = "cli" /\ ~dry_run /\ NoDuplicates(files_to_process) /\ ~write_failed) =>
        /\ \A k \in 1..Len(all_metadata) :
              /\ all_metadata[k].index = k
              /\ all_metadata[k].out_path = joinpath(OUT_DIR, filename(k))
        /\ \A i, j \in 1..Len(written) :
              i # j => written[i].path # written[j].path

\* The (source, content) pairs the readable candidates give, in order.
RECURSIVE expected_from(_, _)
expected_from(files, i) ==
    IF i > Len(files) THEN <<>>
    ELSE LET e == Lookup(files[i])
             bs == IF e.readable THEN extract_tikz_from_text(e.text) ELSE <<>>
         IN  [j \in 1..Len(bs) |->
                 [source |-> e.path, content |-> _format_tikz_content(bs[j])]]
             \o expected_from(files, i + 1)

projection(metadata) ==
    [k \in 1..Len(metadata) |->
        [source |-> metadata[k].source, content |-> metadata[k].content]]

C5_WriteFailureSurfaced ==
    (LibDone /\ write_failed) => raised

\* C6: a write_extracted_blocks call in which the write of a block fails
\* raises, and returns no record list.
C6_WriterPropagates ==
    (last_call.called /\ last_call.io.fail_at # 0) =>
        /\ last_call.raised
        /\ ~last_call.returned
        /\ last_call.metadata = <<>>

C6_Witness ==
    /\ last_call.called
    /\ last_call.io.fail_at = 2
    /\ last_call.raised
    /\ Len(written) >= 1

count(s, c) == Cardinality({i \in 1..Len(s) : s[i] = c})

IsSubstring(b, s) == \E i \in 1..Len(s) + 1, j \in 0..Len(s) : SubSeq(s, i, j) = b

\* Every begin-marker has an end-marker somewhere after it.
Terminated(s) ==
    \A i \in 1..Len(s) : s[i] = BEGIN => \E j \in i + 1..Len(s) : s[j] = END

\* No begin-marker inside an open block: between two begin-markers there
\* is an end-marker.
NoNesting(s) ==
    \A i, j \in 1..Len(s) :
        (i < j /\ s[i] = BEGIN /\ s[j] = BEGIN)
            => \E k \in i + 1..j - 1 : s[k] = END

\* C8: every block extract_tikz_from_text returns is a substring of the
\* text that starts with the begin-marker and ends with the end-marker, and
\* when every begin-marker has a following end-marker and no begin-marker
\* lies inside an open block, there are as many blocks as begin-markers.
C8_BlocksAreDelimitedSubstrings ==
    tpc = "extracted" =>
        /\ \A n \in 1..Len(found) :
              /\ IsSubstring(found[n], input)
              /\ startswith(found[n], BEGIN)
              /\ endswith(found[n], END)
              /\ Len(found[n]) >= 2
        /\ (Terminated(input) /\ NoNesting(input))
              => Len(found) = count(input, BEGIN)

C8_Witness ==
    /\ tpc = "extracted"
    /\ Terminated(input) /\ NoNesting(input)
    /\ count(input, BEGIN) = 2
    /\ Len(found) = 2

\* The shape of C9: exactly two begin-markers, at p < q, no end-marker
\* between them and an end-marker after q.
Positions(s, c) == {i \in 1..Len(s) : s[i] = c}

Min(S) == CHOOSE m \in S : \A n \in S : m <= n

UnterminatedThenTerminated(s) ==
    /\ Cardinality(Positions(s, BEGIN)) = 2
    /\ LET q == CHOOSE i \in Positions(s, BEGIN) : i # Min(Positions(s, BEGIN))
       IN  /\ \A e \in Positions(s, END) : ~(Min(Positions(s, BEGIN)) < e /\ e < q)
           /\ \E e \in Positions(s, END) : e > q

\* C9: an unterminated block followed by a terminated one gives exactly
\* one block, from the first begin-marker through the end-marker that
\* closes the second one.
C9_MergesAcrossUnterminated ==
    (tpc = "extracted" /\ UnterminatedThenTerminated(input)) =>
        LET p == Min(Positions(input, BEGIN))
            q == CHOOSE i \in Positions(input, BEGIN) : i # p
            e == Min({k \in Positions(input, END) : k > q})
        IN  /\ found = <<SubSeq(input, p, e)>>
            /\ found[1][q - p + 1] = BEGIN

C9_Witness ==
    /\ tpc = "extracted"
    /\ UnterminatedThenTerminated(input)
    /\ Len(found) = 1
    /\ Len(found[1]) = 5

\* C10: normalising a normalised string changes nothing, for every input.
C10_NormalizeFixedPoint ==
    passes >= 2 => current = prev

C10_Witness ==
    /\ passes = 2
    /\ current = prev
    /\ current # input
    /\ count(current, SP) >= 2
    /\ count(input, NL) >= 1

\* The lines of a text that ends with a newline.
lines_of(t) == LET l == split(t) IN SubSeq(l, 1, Len(l) - 1)

Markers == {BEGIN, END}

FlushMarker(l) == l # <<>> /\ l[1] \in Markers

TwoSpaces(l) ==
    /\ Len(l) >= 3
    /\ l[1] = SP /\ l[2] = SP
    /\ l[3] \notin Whitespace

Holds(l, c) == \E j \in 1..Len(l) : l[j] = c

\* C11 (as stated): in the normalized text of every extracted block the
\* begin-marker line (the first) and the end-marker line (the last, the one
\* that holds the end-marker) start at column zero and every line between
\* them starts with exactly two spaces.
C11_MarkerLinesFlushRestIndented ==
    tpc = "normalized" =>
        \A n \in 1..Len(normalized) :
            LET ls == lines_of(normalized[n])
                k == Len(ls)
            IN  /\ k >= 1
                /\ Holds(ls[1], BEGIN) /\ ls[1][1] \notin Whitespace
                /\ Holds(ls[k], END) /\ ls[k][1] \notin Whitespace
                /\ \A j \in 2..(k - 1) : TwoSpaces(ls[j])

\* C11 (amended): in the normalized text of every extracted block the first
\* line starts at column zero with the begin-marker, the last line holds the
\* end-marker, and every line either starts at column zero with a begin- or
\* end-marker or is exactly two spaces followed by text that starts with
\* neither marker; a line on which the end-marker follows other content is
\* of the second kind.
C11_LinesFlushIffMarkerFirst ==
    tpc = "normalized" =>
        \A n \in 1..Len(normalized) :
            LET ls == lines_of(normalized[n])
                k == Len(ls)
            IN  /\ k >= 1
                /\ startswith(ls[1], BEGIN)
                /\ Holds(ls[k], END)
                /\ \A j \in 1..k :
                      \/ FlushMarker(ls[j])
                      \/ TwoSpaces(ls[j]) /\ ls[j][3] \notin Markers

\* A block whose content line had one space of indentation, and one whose
\* end-marker follows content on its line, both normalized.
C11_Witness ==
    /\ tpc = "normalized"
    /\ \E n \in 1..Len(found) :
          /\ found[n] = <<BEGIN, NL, SP, XCHAR, NL, END>>
          /\ normalized[n] = <<BEGIN, NL, SP, SP, XCHAR, NL, END, NL>>

\* C12: the result of _format_tikz_content ends with a newline and not with
\* two, for every input, the empty one and the blank ones included.
C12_OneTrailingNewline ==
    passes >= 1 =>
        /\ endswith(current, NL)
        /\ ~(Len(current) >= 2 /\ current[Len(current) - 1] = NL)

\* An input of blank lines only, formatted to a single newline.
C12_Witness ==
    /\ passes = 1
    /\ input = <<SP, NL, NL, SP>>
    /\ current = <<NL>>

FileSystem == <<out_dir_exists, out_files, ai_file>>

\* C18: no step of a command-line run in dry-run mode creates or changes
\* the output directory, a per-block file or the AI context file.
C18_DryRunWritesNothing ==
    [][(mode = "cli" /\ dry_run) => UNCHANGED FileSystem]_vars

\* A finished dry run that found blocks in two files, with no output
\* directory, no per-block file and no AI context file.
C18_Witness ==
    /\ mode = "cli" /\ dry_run /\ pc = "done"
    /\ Len(all_metadata) >= 2
    /\ processed_files >= 2
    /\ ~out_dir_exists
    /\ out_files = <<>>
    /\ ~ai_file.exists

\* C13: the name sanitize_name returns holds neither "/" nor "\", whichever
\* of the two separates the components of the path passed.
C13_NameHoldsNoSeparator ==
    (call.fn = "sanitize_name" /\ answer.done) =>
        ~Holds(answer.value, SEP) /\ ~Holds(answer.value, BACKSLASH)

\* "### <base name of out_path>\n<content>\n"
Unit(rec) == <<"### ">> \o basename(rec.out_path) \o <<NL>> \o rec.content \o <<NL>>

Divider == <<DASH, DASH, DASH>>

RECURSIVE JoinedBy(_, _)
JoinedBy(units, sep) ==
    IF units = <<>> THEN <<>>
    ELSE IF Len(units) = 1 THEN units[1]
    ELSE units[1] \o sep \o JoinedBy(Tail(units), sep)

BuiltContext == call.fn = "build_ai_context" /\ answer.done /\ ~answer.raised

RECURSIVE occurrences(_, _)
occurrences(s, pat) ==
    IF Len(s) < Len(pat) THEN 0
    ELSE IF SubSeq(s, 1, Len(pat)) = pat
         THEN 1 + occurrences(SubSeq(s, Len(pat) + 1, Len(s)), pat)
         ELSE occurrences(Tail(s), pat)

\* C16 (as stated): the file written for M >= 1 records holds exactly M-1
\* occurrences of "---".
C16_DividerCount ==
    (BuiltContext /\ Len(call.metadata) >= 1) =>
        occurrences(answer.file.content, Divider) = Len(call.metadata) - 1

NoDividerIn(rec) ==
    /\ occurrences(rec.content, Divider) = 0
    /\ occurrences(basename(rec.out_path), Divider) = 0

\* C16 (amended): the file written for M >= 1 records, none of which has
\* "---" in its content or in the base name of its out_path, holds exactly
\* M-1 occurrences of "---".
C16_DividerCountOfPlainRecords ==
    (/\ BuiltContext
     /\ Len(call.metadata) >= 1
     /\ \A k \in 1..Len(call.metadata) : NoDividerIn(call.metadata[k])) =>
        occurrences(answer.file.content, Divider) = Len(call.metadata) - 1

\* Three records without "---", two dividers in the file.
C16_Witness ==
    /\ BuiltContext
    /\ Len(call.metadata) = 3
    /\ \A k \in 1..3 : NoDividerIn(call.metadata[k])
    /\ call.metadata[1] # call.metadata[2]
    /\ occurrences(answer.file.content, Divider) = 2

\* C20: a build_ai_context call whose destination has no parent directory
\* makes the directory, does not raise and leaves the file.
C20_MissingParentIsCreated ==
    (/\ call.fn = "build_ai_context" /\ answer.done
     /\ ~call.dest.parent_exists
     /\ call.io.open_ok /\ call.io.write_ok) =>
        ~answer.raised /\ answer.file.exists

Range(q) == {q[i] : i \in 1..Len(q)}

\* C17: on the same directory find_files gives the same set of paths, and
\* as many entries, for an extension written "tex" as for ".tex".
C17_DotIsOptional ==
    (call.fn = "find_files" /\ answer.done) =>
        /\ Range(answer.bare) = Range(answer.dotted)
        /\ Len(answer.bare) = Len(answer.dotted)

\* A directory with two matching files, one of them in a subdirectory, a
\* file of another extension and a file whose name ends in the letters of
\* the extension without a dot.
C17_Witness ==
    /\ call.fn = "find_files" /\ answer.done
    /\ Len(call.src) = 4
    /\ Len(answer.dotted) = 2
    /\ \E i \in 1..2 : Holds(answer.dotted[i], SEP)
    /\ \E i \in 1..4 : call.src[i].path = <<"notes", call.ext>>

\* C19: for the same blocks, source path and output directory the records
\* of _simulate_block_metadata are those write_extracted_blocks returns:
\* as many, with the same out_path, index and content.
C19_DryRunRecordsAreRealRecords ==
    (call.fn = "metadata" /\ answer.done /\ answer.returned) =>
        /\ Len(answer.simulated) = Len(answer.real)
        /\ \A k \in 1..Len(answer.real) :
              /\ answer.simulated[k].out_path = answer.real[k].out_path
              /\ answer.simulated[k].index = answer.real[k].index
              /\ answer.simulated[k].content = answer.real[k].content

\* C21: extract_from_directory returns exactly the records of the blocks of
\* the readable candidates: as many as the blocks, grouped by file in
\* discovery order, in text order within a file, each with its file's path
\* as source.
C21_RecordsOfAllBlocksInOrder ==
    LibDone =>
        /\ Len(all_metadata) = Len(expected_from(files_to_process, 1))
        /\ projection(all_metadata) = expected_from(files_to_process, 1)

\* The first position from i on that holds c, or 0.
RECURSIVE next_index(_, _, _)
next_index(s, i, c) ==
    IF i > Len(s) THEN 0
    ELSE IF s[i] = c THEN i
    ELSE next_index(s, i + 1, c)

\* The two-pointer scan: the next begin-marker, the nearest end-marker
\* after it, the slice between them, and on from behind that end-marker.
RECURSIVE two_pointer_scan(_, _)
two_pointer_scan(s, i) ==
    LET b == next_index(s, i, BEGIN)
    IN  IF b = 0 THEN <<>>
        ELSE LET e == next_index(s, b + 1, END)
             IN  IF e = 0 THEN <<>>
                 ELSE <<SubSeq(s, b, e)>> \o two_pointer_scan(s, e + 1)

\* C22: for every text extract_tikz_from_text returns the blocks of the
\* two-pointer scan, in the same order.
C22_SameAsTwoPointerScan ==
    tpc \in {"extracted", "normalized"} => found = two_pointer_scan(input, 1)

\* A text with a block merged across a second begin-marker, a further
\* block and a begin-marker without an end-marker at the end.
C22_Witness ==
    /\ tpc = "extracted"
    /\ input = <<BEGIN, BEGIN, END, BEGIN, END, BEGIN>>
    /\ found = <<<<BEGIN, BEGIN, END>>, <<BEGIN, END>>>>

\* C23: the content of every record of extract_from_directory starts with
\* the begin-marker and, its trailing whitespace stripped, ends with the
\* end-marker.
C23_ContentFromMarkerToMarker ==
    mode = "lib" =>
        \A k \in 1..Len(all_metadata) :
            /\ startswith(all_metadata[k].content, BEGIN)
            /\ endswith(rstrip(all_metadata[k].content), END)

\* Records of a single-line block, of an indented multi-line block and of
\* a block merged across an unterminated one.
C23_Witness ==
    /\ LibDone
    /\ \E i, j, k \in 1..Len(all_metadata) :
          /\ all_metadata[i].content = <<BEGIN, XCHAR, END, NL>>
          /\ all_metadata[j].content = <<BEGIN, NL, SP, SP, XCHAR, NL, END, NL>>
          /\ all_metadata[k].content = <<BEGIN, NL, BEGIN, END, NL>>

NoCandidateHasBlock ==
    \A i \in 1..Len(tree) :
        (\E e \in Range(normalized_exts(exts)) : matches(tree[i].path, e)) =>
            (~tree[i].readable \/ extract_tikz_from_text(tree[i].text) = <<>>)

AtFileWithoutBlock ==
    /\ mode = "lib" /\ pc = "loop"
    /\ pos <= Len(files_to_process)
    /\ Lookup(files_to_process[pos]).readable
    /\ extract_tikz_from_text(Lookup(files_to_process[pos]).text) = <<>>

trimmed_non_blank(lines) ==
    SelectSeq([i \in 1..Len(lines) |-> strip(lines[i])], LAMBDA l : l # <<>>)

trimmed(lines) == [i \in 1..Len(lines) |-> strip(lines[i])]

\* C25 (as stated): the trimmed lines of _format_tikz_content(x) are the
\* trimmed non-blank lines of x in order, and the result has no blank line.
C25_KeepsNonBlankLines ==
    passes >= 1 =>
        /\ trimmed(lines_of(current)) = trimmed_non_blank(split(prev))
        /\ \A i \in 1..Len(lines_of(current)) : strip(lines_of(current)[i]) # <<>>

\* C25 (amended): for x with a non-blank line the trimmed lines of
\* _format_tikz_content(x) are the trimmed non-blank lines of x in order
\* and the result has no blank line; for x without one (the empty string
\* included) the result is a single newline, that is one empty line.
C25_KeepsNonBlankLinesOrOneNewline ==
    passes >= 1 =>
        IF trimmed_non_blank(split(prev)) = <<>>
        THEN current = <<NL>>
        ELSE /\ trimmed(lines_of(current)) = trimmed_non_blank(split(prev))
             /\ \A i \in 1..Len(lines_of(current)) :
                   strip(lines_of(current)[i]) # <<>>

\* A text with two blank lines between two different lines.
C25_Witness ==
    /\ passes = 1
    /\ input = <<XCHAR, NL, SP, NL, SP, BEGIN>>
    /\ current = <<SP, SP, XCHAR, NL, BEGIN, NL>>

\* C28: find_files returns no path twice, whatever the extension list; so
\* extract_from_directory takes every source file at most once.
C28_EachCandidateOnce ==
    pc # "start" => NoDuplicates(files_to_process)

\* C29: every path find_files returns is a regular file whose name ends
\* with the requested extension; a directory of such a name is not
\* returned.
C29_OnlyRegularFiles ==
    (call.fn = "find_files" /\ answer.done) =>
        \A p \in Range(answer.dotted) :
            /\ \E i \in 1..Len(call.src) :
                  call.src[i].path = p /\ ~call.src[i].is_dir
            /\ Len(p) >= 2
            /\ SubSeq(p, Len(p) - 1, Len(p)) = <<DOT, call.ext>>

\* C27: when extract_from_directory returns, the block files written in
\* the run are exactly the out_paths of the records returned.
C27_WrittenFilesAreRecorded ==
    (LibDone /\ ~raised) =>
        {written[i].path : i \in 1..Len(written)}
            = {all_metadata[k].out_path : k \in 1..Len(all_metadata)}

WrittenPaths == {written[i].path : i \in 1..Len(written)}

\* C26: the candidates are listed before the first write of the run, so
\* the file extract_from_directory is about to read as a source is never a
\* file this run has written, wherever out_dir lies.
C26_NeverReadsOwnOutput ==
    (mode = "lib" /\ pc = "loop" /\ pos <= Len(files_to_process)) =>
        files_to_process[pos] \notin WrittenPaths

\* C30: a second extract_from_directory run on the same arguments and
\* unchanged source files returns the records of the first and leaves the
\* same output files, wherever out_dir lies.
C30_SecondRunSameAsFirst ==
    (LibDone /\ run = 2) =>
        /\ all_metadata = first_run.metadata
        /\ DOMAIN out_files = DOMAIN first_run.out_files

====
